---- MODULE Spec2Model ----
(***************************************************************************)
(* State-machine model of the ink! Token contract of src/lib.rs:           *)
(* storage (balances, owner, total_supply), the constructor new, the       *)
(* messages mint, transfer, balance_of, owner, total_supply, and the       *)
(* events each call emits.  u128 is scaled down to 0..U128Max; the         *)
(* checked_* operations return None exactly where the Rust ones do.        *)
(***************************************************************************)
EXTENDS Integers, Sequences, FiniteSets, TLC

\* ---- bounds of the model ----
U128Max == 3
MaxCalls == 3

\* the account ids the calls are made from and to (those of the unit tests)
Accounts == {"alice", "bob", "charlie"}
Amounts == 0..U128Max
None == -1

VARIABLES balances, owner, total_supply, events, creator, last, pre, ncalls,
          received

vars == <<balances, owner, total_supply, events, creator, last, pre, ncalls,
          received>>

\* ---- helpers of the storage and of u128 arithmetic ----

\* Mapping::default(): no stored entry
EmptyMapping == [x \in {} |-> 0]

\* Mapping::get(k).unwrap_or(0)
Get(m, k) == IF k \in DOMAIN m THEN m[k] ELSE 0

\* Mapping::insert(k, &v)
Insert(m, k, v) == [x \in (DOMAIN m) \cup {k} |-> IF x = k THEN v ELSE m[x]]

\* mutant of checked_add: the sum wraps around instead of being refused
wrapping_add(a, b) == (a + b) % (U128Max + 1)

\* u128::checked_add
checked_add(a, b) == IF a + b > U128Max THEN None ELSE a + b

\* u128::checked_sub
checked_sub(a, b) == IF a < b THEN None ELSE a - b

\* the events
MintEvent(to, amount) == [event |-> "Mint", to |-> to, amount |-> amount]

TransferEvent(from, to, amount) ==
    [event |-> "Transfer", from |-> from, to |-> to, amount |-> amount]

\* the contract's storage as a message finds it, together with the events the
\* message has emitted so far: none when it starts
Self == [balances |-> balances, owner |-> owner,
         total_supply |-> total_supply, events |-> <<>>]

\* what a message leaves behind: its return value and the storage
Outcome(result, self) == [result |-> result, self |-> self]

\* ---- constructor and messages ----

\* mutant of new: the owner is a fixed account instead of the caller
new_fixed_owner(caller) == [balances |-> EmptyMapping, owner |-> "alice",
                            total_supply |-> 0, events |-> <<>>]

\* Token::new
new(caller) == [balances |-> EmptyMapping, owner |-> caller,
                total_supply |-> 0, events |-> <<>>]

\* mutant of mint: the new balance is inserted before the owner check
mint_write_before_auth(self, caller, to, amount) ==
    LET current_balance == Get(self.balances, to)
        new_balance == checked_add(current_balance, amount)
    IN  IF new_balance = None
        THEN {Outcome("Panic", self)}
        ELSE LET written == [self EXCEPT !.balances = Insert(@, to, new_balance)]
                 new_supply == checked_add(self.total_supply, amount)
             IN  IF caller # self.owner
                 THEN {Outcome("Unauthorized", written)}
                 ELSE IF new_supply = None
                      THEN {Outcome("Panic", written), Outcome("Panic", self)}
                      ELSE {Outcome("Ok",
                              [written EXCEPT !.total_supply = new_supply,
                                              !.events = Append(@, MintEvent(to, amount))])}

\* mutant of mint: the owner check is skipped when nothing is minted
mint_zero_unchecked(self, caller, to, amount) ==
    IF caller # self.owner /\ amount # 0
    THEN {Outcome("Unauthorized", self)}
    ELSE LET current_balance == Get(self.balances, to)
             new_balance == checked_add(current_balance, amount)
         IN  IF new_balance = None
             THEN {Outcome("Panic", self)}
             ELSE LET written == [self EXCEPT !.balances = Insert(@, to, new_balance)]
                      new_supply == checked_add(self.total_supply, amount)
                  IN  IF new_supply = None
                      THEN {Outcome("Panic", written), Outcome("Panic", self)}
                      ELSE {Outcome("Ok",
                              [written EXCEPT !.total_supply = new_supply,
                                              !.events = Append(@, MintEvent(to, amount))])}

\* mutant of mint: total_supply is checked but not assigned
mint_supply_not_updated(self, caller, to, amount) ==
    IF caller # self.owner
    THEN {Outcome("Unauthorized", self)}
    ELSE LET current_balance == Get(self.balances, to)
             new_balance == checked_add(current_balance, amount)
         IN  IF new_balance = None
             THEN {Outcome("Panic", self)}
             ELSE LET written == [self EXCEPT !.balances = Insert(@, to, new_balance)]
                      new_supply == checked_add(self.total_supply, amount)
                  IN  IF new_supply = None
                      THEN {Outcome("Panic", written), Outcome("Panic", self)}
                      ELSE {Outcome("Ok",
                              [written EXCEPT
                                 !.events = Append(@, MintEvent(to, amount))])}

\* mutant of mint: minting nothing returns early, before the insert and the event
mint_zero_returns_early(self, caller, to, amount) ==
    IF caller # self.owner
    THEN {Outcome("Unauthorized", self)}
    ELSE IF amount = 0
    THEN {Outcome("Ok", self)}
    ELSE LET current_balance == Get(self.balances, to)
             new_balance == checked_add(current_balance, amount)
         IN  IF new_balance = None
             THEN {Outcome("Panic", self)}
             ELSE LET written == [self EXCEPT !.balances = Insert(@, to, new_balance)]
                      new_supply == checked_add(self.total_supply, amount)
                  IN  IF new_supply = None
                      THEN {Outcome("Panic", written), Outcome("Panic", self)}
                      ELSE {Outcome("Ok",
                              [written EXCEPT !.total_supply = new_supply,
                                              !.events = Append(@, MintEvent(to, amount))])}

\* Token::mint.  The two expect() calls panic.  The first one precedes every
\* write.  The second one follows the insert of the new balance: where the
\* host reverts a trapped call (on-chain build) the insert is undone, where
\* it does not (off-chain environment of the tests) the insert stays.
mint(self, caller, to, amount) ==
    IF caller # self.owner
    THEN {Outcome("Unauthorized", self)}
    ELSE LET current_balance == Get(self.balances, to)
             new_balance == checked_add(current_balance, amount)
         IN  IF new_balance = None
             THEN {Outcome("Panic", self)}
             ELSE LET written == [self EXCEPT !.balances = Insert(@, to, new_balance)]
                      new_supply == checked_add(self.total_supply, amount)
                  IN  IF new_supply = None
                      THEN {Outcome("Panic", written), Outcome("Panic", self)}
                      ELSE {Outcome("Ok",
                              [written EXCEPT !.total_supply = new_supply,
                                              !.events = Append(@, MintEvent(to, amount))])}

\* mutant of balance_of: the balance is read under the owner's key
balance_of_owner_key(self, account) == Get(self.balances, self.owner)

\* Token::balance_of
balance_of(self, account) == Get(self.balances, account)

\* mutant of transfer: the balance check precedes the self-transfer check
transfer_balance_check_first(self, from, to, amount) ==
    LET from_balance == Get(self.balances, from)
    IN  IF from_balance < amount
        THEN {Outcome("InsufficientBalance", self)}
        ELSE IF from = to
             THEN {Outcome("SelfTransfer", self)}
             ELSE LET to_balance == Get(self.balances, to)
                      new_from_balance == checked_sub(from_balance, amount)
                      new_to_balance == checked_add(to_balance, amount)
                  IN  IF new_from_balance = None \/ new_to_balance = None
                      THEN {Outcome("Panic", self)}
                      ELSE {Outcome("Ok",
                              [self EXCEPT
                                 !.balances = Insert(Insert(@, from, new_from_balance),
                                                     to, new_to_balance),
                                 !.events = Append(@, TransferEvent(from, to, amount))])}

\* mutant of transfer: the balance check is <= instead of <
transfer_balance_le(self, from, to, amount) ==
    IF from = to
    THEN {Outcome("SelfTransfer", self)}
    ELSE LET from_balance == Get(self.balances, from)
         IN  IF from_balance <= amount
             THEN {Outcome("InsufficientBalance", self)}
             ELSE LET to_balance == Get(self.balances, to)
                      new_from_balance == checked_sub(from_balance, amount)
                      new_to_balance == checked_add(to_balance, amount)
                  IN  IF new_from_balance = None \/ new_to_balance = None
                      THEN {Outcome("Panic", self)}
                      ELSE {Outcome("Ok",
                              [self EXCEPT
                                 !.balances = Insert(Insert(@, from, new_from_balance),
                                                     to, new_to_balance),
                                 !.events = Append(@, TransferEvent(from, to, amount))])}

\* mutant of transfer: the event names the sender and the recipient the wrong
\* way round
transfer_event_swapped(self, from, to, amount) ==
    IF from = to
    THEN {Outcome("SelfTransfer", self)}
    ELSE LET from_balance == Get(self.balances, from)
         IN  IF from_balance < amount
             THEN {Outcome("InsufficientBalance", self)}
             ELSE LET to_balance == Get(self.balances, to)
                      new_from_balance == checked_sub(from_balance, amount)
                      new_to_balance == checked_add(to_balance, amount)
                  IN  IF new_from_balance = None \/ new_to_balance = None
                      THEN {Outcome("Panic", self)}
                      ELSE {Outcome("Ok",
                              [self EXCEPT
                                 !.balances = Insert(Insert(@, from, new_from_balance),
                                                     to, new_to_balance),
                                 !.events = Append(@, TransferEvent(to, from, amount))])}

\* mutant of transfer: the sender's new balance is not inserted
transfer_no_debit(self, from, to, amount) ==
    IF from = to
    THEN {Outcome("SelfTransfer", self)}
    ELSE LET from_balance == Get(self.balances, from)
         IN  IF from_balance < amount
             THEN {Outcome("InsufficientBalance", self)}
             ELSE LET to_balance == Get(self.balances, to)
                      new_from_balance == checked_sub(from_balance, amount)
                      new_to_balance == checked_add(to_balance, amount)
                  IN  IF new_from_balance = None \/ new_to_balance = None
                      THEN {Outcome("Panic", self)}
                      ELSE {Outcome("Ok",
                              [self EXCEPT
                                 !.balances = Insert(@, to, new_to_balance),
                                 !.events = Append(@, TransferEvent(from, to, amount))])}

\* Token::transfer.  Both new balances are computed before either insert, so
\* a panic of an expect() leaves the storage as it was.
transfer(self, from, to, amount) ==
    IF from = to
    THEN {Outcome("SelfTransfer", self)}
    ELSE LET from_balance == Get(self.balances, from)
         IN  IF from_balance < amount
             THEN {Outcome("InsufficientBalance", self)}
             ELSE LET to_balance == Get(self.balances, to)
                      new_from_balance == checked_sub(from_balance, amount)
                      new_to_balance == checked_add(to_balance, amount)
                  IN  IF new_from_balance = None \/ new_to_balance = None
                      THEN {Outcome("Panic", self)}
                      ELSE {Outcome("Ok",
                              [self EXCEPT
                                 !.balances = Insert(Insert(@, from, new_from_balance),
                                                     to, new_to_balance),
                                 !.events = Append(@, TransferEvent(from, to, amount))])}

\* Token::owner
get_owner(self) == self.owner

\* Token::total_supply
get_total_supply(self) == self.total_supply

\* ---- the state machine ----

\* One call: the storage becomes that of the outcome and events the events
\* the call emitted, in order; pre keeps the storage the call started from,
\* creator the caller of new, and received the accounts whose readable
\* balance a call has raised so far.
Commit(o) ==
    /\ ncalls < MaxCalls
    /\ ncalls' = ncalls + 1
    /\ balances' = o.self.balances
    /\ owner' = o.self.owner
    /\ total_supply' = o.self.total_supply
    /\ events' = o.self.events
    /\ pre' = Self
    /\ received' = received \cup {a \in Accounts :
                         Get(o.self.balances, a) > Get(balances, a)}
    /\ UNCHANGED creator

Init ==
    \E caller \in Accounts :
        /\ creator = caller
        /\ balances = new(caller).balances
        /\ owner = new(caller).owner
        /\ total_supply = new(caller).total_supply
        /\ events = new(caller).events
        /\ pre = new(caller)
        /\ last = [op |-> "new", caller |-> caller]
        /\ ncalls = 0
        /\ received = {}

Mint ==
    \E caller \in Accounts, to \in Accounts, amount \in Amounts :
        \E o \in mint(Self, caller, to, amount) :
            /\ Commit(o)
            /\ last' = [op |-> "mint", caller |-> caller, to |-> to,
                        amount |-> amount, result |-> o.result]

Transfer ==
    \E caller \in Accounts, to \in Accounts, amount \in Amounts :
        \E o \in transfer(Self, caller, to, amount) :
            /\ Commit(o)
            /\ last' = [op |-> "transfer", caller |-> caller, to |-> to,
                        amount |-> amount, result |-> o.result]

BalanceOf ==
    \E account \in Accounts :
        /\ Commit(Outcome("Ok", Self))
        /\ last' = [op |-> "balance_of", account |-> account,
                    ret |-> balance_of(Self, account)]

Owner ==
    /\ Commit(Outcome("Ok", Self))
    /\ last' = [op |-> "owner", ret |-> get_owner(Self)]

TotalSupply ==
    /\ Commit(Outcome("Ok", Self))
    /\ last' = [op |-> "total_supply", ret |-> get_total_supply(Self)]

Next == Mint \/ Transfer \/ BalanceOf \/ Owner \/ TotalSupply

Spec == Init /\ [][Next]_vars

\* ---- vocabulary of the properties ----

RECURSIVE SumOver(_, _)
SumOver(m, S) ==
    IF S = {} THEN 0
    ELSE LET a == CHOOSE x \in S : TRUE IN Get(m, a) + SumOver(m, S \ {a})

\* the sum of balance_of(a) over all accounts
SumBalances(m) == SumOver(m, Accounts)

IsCall(op) == last.op = op

TypeOK ==
    /\ DOMAIN balances \subseteq Accounts
    /\ \A a \in DOMAIN balances : balances[a] \in Amounts
    /\ owner \in Accounts
    /\ total_supply \in Amounts
    /\ Len(events) <= 1
    /\ ncalls \in 0..MaxCalls
    /\ received \subseteq Accounts

\* the arguments and the result of the call that led to the current state
IsMint == IsCall("mint")
IsTransfer == IsCall("transfer")

\* balance_of as a caller of the queries reads it, before and after the call
BalBefore(a) == Get(pre.balances, a)
BalAfter(a) == Get(balances, a)

StorageUnchanged ==
    /\ balances = pre.balances
    /\ total_supply = pre.total_supply
    /\ owner = pre.owner

ReturnedErrors == {"Unauthorized", "SelfTransfer", "InsufficientBalance"}

\* ---- properties ----

\* C1: in every reachable state total_supply() equals the sum of
\* balance_of(a) over all accounts a.
C1_Conservation == total_supply = SumBalances(balances)

\* C2: after a call of mint, balance[to] has been increased by amount exactly
\* when total_supply has been increased by amount: never one without the other.
C2_MintAllOrNothing ==
    IsMint =>
        ((BalAfter(last.to) = BalBefore(last.to) + last.amount)
            <=> (total_supply = pre.total_supply + last.amount))

\* C3: an owner's mint whose balance or supply addition exceeds the maximum,
\* and a transfer whose credit exceeds it, returns the error Overflow.
C3_OverflowReported ==
    /\ (/\ IsMint
        /\ last.caller = pre.owner
        /\ \/ BalBefore(last.to) + last.amount > U128Max
           \/ pre.total_supply + last.amount > U128Max)
          => last.result = "Overflow"
    /\ (/\ IsTransfer
        /\ last.caller # last.to
        /\ BalBefore(last.caller) >= last.amount
        /\ BalBefore(last.to) + last.amount > U128Max)
          => last.result = "Overflow"

\* C4: a call of mint or transfer that returns Unauthorized, SelfTransfer or
\* InsufficientBalance leaves balances, total_supply and owner as they were.
C4_RollbackOnError ==
    ((IsMint \/ IsTransfer) /\ last.result \in ReturnedErrors) => StorageUnchanged

C4_Witness ==
    /\ IsTransfer
    /\ last.result = "InsufficientBalance"
    /\ BalBefore(last.caller) > 0
    /\ total_supply > 0

\* C5: mint returns Unauthorized if and only if the caller is not the owner,
\* whatever to and amount are.
C5_MintAuthorization ==
    IsMint => (last.result = "Unauthorized" <=> last.caller # pre.owner)

C5_Witness ==
    /\ IsMint
    /\ last.caller # owner
    /\ last.amount = 0
    /\ last.result = "Unauthorized"

\* C6: an owner's mint in which no addition overflows returns Ok, adds amount
\* to balance_of(to) and to total_supply(), and leaves every other balance and
\* the owner unchanged.
C6_MintEffect ==
    (/\ IsMint
     /\ last.caller = pre.owner
     /\ BalBefore(last.to) + last.amount <= U128Max
     /\ pre.total_supply + last.amount <= U128Max)
       => /\ last.result = "Ok"
          /\ BalAfter(last.to) = BalBefore(last.to) + last.amount
          /\ total_supply = pre.total_supply + last.amount
          /\ \A a \in Accounts \ {last.to} : BalAfter(a) = BalBefore(a)
          /\ owner = pre.owner

C6_Witness ==
    /\ IsMint
    /\ last.result = "Ok"
    /\ last.amount > 0
    /\ BalBefore(last.to) > 0
    /\ \E a \in Accounts \ {last.to} : BalAfter(a) > 0

\* C7: a transfer with from # to and balance[from] >= amount returns Ok, moves
\* exactly amount from balance_of(from) to balance_of(to), and leaves
\* total_supply, owner and every other balance unchanged.
C7_TransferEffect ==
    (/\ IsTransfer
     /\ last.caller # last.to
     /\ BalBefore(last.caller) >= last.amount)
       => /\ last.result = "Ok"
          /\ BalAfter(last.caller) = BalBefore(last.caller) - last.amount
          /\ BalAfter(last.to) = BalBefore(last.to) + last.amount
          /\ total_supply = pre.total_supply
          /\ owner = pre.owner
          /\ \A a \in Accounts \ {last.caller, last.to} : BalAfter(a) = BalBefore(a)

\* C8: transfer(c, amount) called by c returns SelfTransfer for every amount,
\* also for 0 and for amounts above c's balance.
C8_SelfTransferFirst ==
    (IsTransfer /\ last.caller = last.to) => last.result = "SelfTransfer"

C8_Witness ==
    /\ IsTransfer
    /\ last.caller = last.to
    /\ last.amount > BalBefore(last.caller)
    /\ BalBefore(last.caller) > 0
    /\ last.result = "SelfTransfer"

\* C9: a transfer with from # to returns InsufficientBalance if and only if
\* balance[from] < amount, and then no balance changes; an account whose
\* balance no call has ever raised transfers no positive amount.
C9_InsufficientBalance ==
    /\ (IsTransfer /\ last.caller # last.to)
          => /\ last.result = "InsufficientBalance"
                   <=> BalBefore(last.caller) < last.amount
             /\ last.result = "InsufficientBalance" => balances = pre.balances
    /\ (IsTransfer /\ last.caller \notin received /\ last.amount > 0)
          => /\ last.result \in {"SelfTransfer", "InsufficientBalance"}
             /\ balances = pre.balances

C9_Witness ==
    /\ IsTransfer
    /\ last.caller # last.to
    /\ last.caller \notin received
    /\ last.amount > 0
    /\ BalBefore(last.to) > 0
    /\ last.result = "InsufficientBalance"

\* C10: right after new() called by A, owner() = A, total_supply() = 0 and
\* every balance_of is 0; in every later state owner() is still A.
C10_OwnerFixed ==
    /\ owner = creator
    /\ IsCall("new") => /\ last.caller = creator
                        /\ total_supply = 0
                        /\ \A x \in Accounts : BalAfter(x) = 0

C10_Witness ==
    /\ ncalls = MaxCalls
    /\ IsTransfer
    /\ last.result = "Ok"
    /\ last.amount > 0
    /\ last.caller # creator
    /\ last.to # creator
    /\ owner = creator

\* C11: in every reachable state every balance_of(a) is at least 0 and at most
\* total_supply().
C11_BalanceBound ==
    \A a \in Accounts : BalAfter(a) >= 0 /\ BalAfter(a) <= total_supply

\* C12: the owner's mint(to, 0) and any caller's transfer(to, 0) with
\* to # caller return Ok, also when the caller's balance is 0, leave every
\* balance_of and total_supply as they were and emit the Mint or Transfer event
\* with amount 0.
C12_ZeroAmount ==
    /\ (IsMint /\ last.caller = pre.owner /\ last.amount = 0)
          => /\ last.result = "Ok"
             /\ \A a \in Accounts : BalAfter(a) = BalBefore(a)
             /\ total_supply = pre.total_supply
             /\ events = <<[event |-> "Mint", to |-> last.to, amount |-> 0]>>
    /\ (IsTransfer /\ last.caller # last.to /\ last.amount = 0)
          => /\ last.result = "Ok"
             /\ \A a \in Accounts : BalAfter(a) = BalBefore(a)
             /\ total_supply = pre.total_supply
             /\ events = <<[event |-> "Transfer", from |-> last.caller,
                            to |-> last.to, amount |-> 0]>>

C12_Witness ==
    /\ IsTransfer
    /\ last.caller # last.to
    /\ last.amount = 0
    /\ BalBefore(last.caller) = 0
    /\ total_supply > 0
    /\ pre.owner # last.caller
    /\ last.result = "Ok"
    /\ Len(events) = 1

\* C13: a mint that returns Ok emits exactly the one event Mint{to, amount}, a
\* transfer that returns Ok exactly the one event Transfer{from, to, amount}
\* with from the caller, and a call that does not return Ok emits none.
C13_Notifications ==
    /\ IsMint =>
          events = IF last.result = "Ok"
                   THEN <<[event |-> "Mint", to |-> last.to, amount |-> last.amount]>>
                   ELSE <<>>
    /\ IsTransfer =>
          events = IF last.result = "Ok"
                   THEN <<[event |-> "Transfer", from |-> last.caller,
                           to |-> last.to, amount |-> last.amount]>>
                   ELSE <<>>

C13_Witness ==
    /\ IsTransfer
    /\ last.result = "Ok"
    /\ last.amount > 0
    /\ pre.total_supply > 0
    /\ events = <<[event |-> "Transfer", from |-> last.caller,
                   to |-> last.to, amount |-> last.amount]>>

\* C14: balance_of, owner and total_supply return a value and leave balances,
\* total_supply and owner unchanged; balance_of returns the stored balance, and
\* 0 for an account without a stored entry.
C14_QueriesPure ==
    /\ IsCall("balance_of") =>
          /\ StorageUnchanged
          /\ events = <<>>
          /\ last.ret = IF last.account \in DOMAIN pre.balances
                        THEN pre.balances[last.account] ELSE 0
    /\ IsCall("owner") =>
          /\ StorageUnchanged
          /\ events = <<>>
          /\ last.ret = pre.owner
    /\ IsCall("total_supply") =>
          /\ StorageUnchanged
          /\ events = <<>>
          /\ last.ret = pre.total_supply

C14_Witness ==
    /\ IsCall("balance_of")
    /\ last.account \notin DOMAIN balances
    /\ last.ret = 0
    /\ BalAfter(owner) > 0
    /\ last.account # owner

\* C15: a call of mint or transfer whose caller is not the owner leaves
\* total_supply and the sum of all balances unchanged; total_supply changes
\* only in a mint by the owner that returns Ok.
C15_OnlyOwnerCreatesValue ==
    /\ ((IsMint \/ IsTransfer) /\ last.caller # pre.owner)
          => /\ total_supply = pre.total_supply
             /\ SumBalances(balances) = SumBalances(pre.balances)
    /\ total_supply # pre.total_supply
          => /\ IsMint
             /\ last.result = "Ok"
             /\ last.caller = pre.owner

C15_Witness ==
    /\ IsTransfer
    /\ last.caller # pre.owner
    /\ last.result = "Ok"
    /\ last.amount > 0
    /\ BalAfter(last.to) > last.amount

\* C16: no call lowers total_supply, and total_supply never exceeds the
\* maximum of its width.
C16_SupplyMonotone ==
    /\ total_supply >= pre.total_supply
    /\ total_supply <= U128Max

C16_Witness ==
    /\ IsMint
    /\ last.result = "Ok"
    /\ last.amount > 0
    /\ pre.total_supply > 0
    /\ total_supply = U128Max

\* C17: in a transfer with from # to and balance[from] >= amount,
\* balance[to] + amount fits in the width, neither checked operation fails and
\* the call does not abort.
C17_TransferNeverAborts ==
    (/\ IsTransfer
     /\ last.caller # last.to
     /\ BalBefore(last.caller) >= last.amount)
       => /\ BalBefore(last.to) + last.amount <= U128Max
          /\ last.result # "Panic"

\* C18: whenever the owner's mint(to, amount) overflows balance[to] + amount
\* it also overflows total_supply + amount.
C18_BalanceOverflowImpliesSupplyOverflow ==
    (/\ IsMint
     /\ last.caller = pre.owner
     /\ BalBefore(last.to) + last.amount > U128Max)
       => pre.total_supply + last.amount > U128Max

====
